---- MODULE Spec2Model ----
(***************************************************************************)
(* EfficientDet detector: construction, mode switch and score threshold    *)
(* (efficientdet.py) and the two training losses (loss_functions.py).      *)
(*                                                                         *)
(* Numbers are fixed point: box coordinates and clip_delta are in tenths,  *)
(* class probabilities are in tenths, a loss value is a fraction           *)
(* [num, den] of integers.                                                 *)
(***************************************************************************)
EXTENDS Integers, Sequences, FiniteSets, TLC

VARIABLES pc, args, env, self, tmp, downloaded, error, events, nextId,
          loadTarget, buildOut, out, op, assigned,
          y_true, y_pred, delta, clip_delta, reduction, result

vars == <<pc, args, env, self, tmp, downloaded, error, events, nextId,
          loadTarget, buildOut, out, op, assigned,
          y_true, y_pred, delta, clip_delta, reduction, result>>

\* the detector's state (op, the last operation, is shared with the losses)
detVars == <<pc, args, env, self, tmp, downloaded, error, events, nextId,
             loadTarget, buildOut, out, assigned>>

lossVars == <<y_true, y_pred, delta, clip_delta, reduction, result>>

(***************************************************************************)
(* Bounds                                                                  *)
(***************************************************************************)
MaxClasses == 2
MaxThreshold == 2
MaxAnchors == 3

(***************************************************************************)
(* Values                                                                  *)
(***************************************************************************)
\* Python None, and an attribute that has not been assigned yet
None == <<>>
Some(v) == <<v>>

_AVAILABLE_WEIGHTS == {"None", "imagenet", "D0-VOC"}
_WEIGHTS_PATHS == [w \in {"D0-VOC"} |-> "gs://ml-generic-purpose-tf-models/D0-VOC"]

\* weight identifiers a caller may pass: the available ones and an unknown one
WeightArgs == _AVAILABLE_WEIGHTS \cup {"D7-COCO"}

NumClassesArgs == {None} \cup {Some(n) : n \in 1..MaxClasses}
Thresholds == 1..MaxThreshold

\* weights is neither None nor 'imagenet' (lines 40 and 82)
IsCheckpoint(w) == w # "imagenet" /\ w # "None"

\* `weights is 'imagenet' or weights is None` (line 34): identity, not
\* equality; for 'imagenet' it holds only when the caller's string object is
\* the interned literal
IsScratch(w, interned) == (w = "imagenet" /\ interned) \/ w = "None"

(***************************************************************************)
(* Detector: state after `super().__init__()` (line 23)                    *)
(***************************************************************************)
NoSelf == [config |-> None, backbone |-> None, neck |-> None,
           class_head |-> None, bb_head |-> None, num_classes |-> None,
           training_mode |-> None, filter_detections |-> None]

DetInit ==
    /\ pc = "check_custom"
    /\ args \in [num_classes : NumClassesArgs,
                 D : {0},
                 bidirectional : {TRUE},
                 freeze_backbone : BOOLEAN,
                 score_threshold : Thresholds,
                 weights : WeightArgs,
                 custom_head_classifier : BOOLEAN,
                 training_mode : BOOLEAN]
    /\ env \in [interned : BOOLEAN,
                n_classes : 1..MaxClasses,
                bidirectional : {TRUE},
                efficientdet : {0}]
    /\ self = NoSelf
    /\ tmp = None
    /\ downloaded = FALSE
    /\ error = None
    /\ events = <<>>
    /\ nextId = 1
    /\ loadTarget = None
    /\ buildOut = None
    /\ out = None
    /\ op = "init"
    /\ assigned = None

LossIdle ==
    /\ y_true = <<>>
    /\ y_pred = <<>>
    /\ delta = 10
    /\ clip_delta = 10
    /\ reduction = "sum"
    /\ result = None

Raise(msg) ==
    /\ pc' = "error"
    /\ error' = Some(msg)
    /\ events' = Append(events, "raise")

\* CheckCustomHead with the num_classes test left out
CheckCustomHead_NoTest ==
    /\ pc = "check_custom"
    /\ op' = "init"
    /\ pc' = "check_weights"
    /\ UNCHANGED <<error, events>>
    /\ UNCHANGED <<args, env, self, tmp, downloaded, nextId, loadTarget,
                   buildOut, out, assigned>>
    /\ UNCHANGED lossVars

\* lines 25-27
CheckCustomHead ==
    /\ pc = "check_custom"
    /\ op' = "init"
    /\ IF args.custom_head_classifier /\ args.num_classes = None
       THEN Raise("ValueError: num_classes required")
       ELSE /\ pc' = "check_weights"
            /\ UNCHANGED <<error, events>>
    /\ UNCHANGED <<args, env, self, tmp, downloaded, nextId, loadTarget,
                   buildOut, out, assigned>>
    /\ UNCHANGED lossVars

\* lines 29-32
CheckWeights ==
    /\ pc = "check_weights"
    /\ op' = "init"
    /\ IF args.weights \notin _AVAILABLE_WEIGHTS
       THEN Raise("ValueError: weights not available")
       ELSE /\ pc' = "check_scratch"
            /\ UNCHANGED <<error, events>>
    /\ UNCHANGED <<args, env, self, tmp, downloaded, nextId, loadTarget,
                   buildOut, out, assigned>>
    /\ UNCHANGED lossVars

\* lines 34-36
CheckScratch ==
    /\ pc = "check_scratch"
    /\ op' = "init"
    /\ IF IsScratch(args.weights, env.interned) /\ args.custom_head_classifier
       THEN Raise("ValueError: custom head from scratch")
       ELSE /\ pc' = "checkpoint"
            /\ UNCHANGED <<error, events>>
    /\ UNCHANGED <<args, env, self, tmp, downloaded, nextId, loadTarget,
                   buildOut, out, assigned>>
    /\ UNCHANGED lossVars

\* line 49
ClassCountMismatch(num_classes, custom, n_classes) ==
    /\ num_classes # None
    /\ ~custom
    /\ num_classes # Some(n_classes)

\* lines 40-53
LoadCheckpointParams ==
    /\ pc = "checkpoint"
    /\ op' = "init"
    /\ IF IsCheckpoint(args.weights)
       THEN /\ downloaded' = TRUE
            /\ IF ClassCountMismatch(args.num_classes,
                                     args.custom_head_classifier,
                                     env.n_classes)
               THEN /\ pc' = "error"
                    /\ error' = Some("ValueError: num classes differ")
                    /\ events' = events \o <<"download", "raise">>
                    /\ args' = args
               ELSE /\ pc' = "architecture"
                    /\ events' = Append(events, "download")
                    /\ args' = [args EXCEPT !.bidirectional = env.bidirectional,
                                            !.D = env.efficientdet]
                    /\ error' = error
       ELSE /\ pc' = "architecture"
            /\ UNCHANGED <<downloaded, args, error, events>>
    /\ UNCHANGED <<env, self, tmp, nextId, loadTarget, buildOut, out, assigned>>
    /\ UNCHANGED lossVars

\* lines 55-63
SetupBackbone ==
    /\ pc = "architecture"
    /\ op' = "init"
    /\ self' = [self EXCEPT
                  !.config = Some(args.D),
                  !.backbone = Some([weights |-> IF args.weights = "imagenet"
                                                 THEN "imagenet" ELSE "None",
                                     trainable |-> ~args.freeze_backbone])]
    /\ events' = events \o <<"config", "backbone">>
    /\ pc' = "neck"
    /\ UNCHANGED <<args, env, tmp, downloaded, error, nextId, loadTarget,
                   buildOut, out, assigned>>
    /\ UNCHANGED lossVars

\* lines 65-66
SetupNeck ==
    /\ pc = "neck"
    /\ op' = "init"
    /\ self' = [self EXCEPT !.neck = Some([weights |-> "None"])]
    /\ events' = Append(events, "neck")
    /\ pc' = "heads"
    /\ UNCHANGED <<args, env, tmp, downloaded, error, nextId, loadTarget,
                   buildOut, out, assigned>>
    /\ UNCHANGED lossVars

\* RetinaNetClassifier(..., num_classes=n): a new head object
RetinaNetClassifier(id, n) == [id |-> id, num_classes |-> n, weights |-> "None"]

\* lines 68-74
SetupHeads ==
    /\ pc = "heads"
    /\ op' = "init"
    /\ IF args.num_classes = None
       THEN /\ Raise("ValueError: specify the number of classes")
            /\ UNCHANGED <<self, nextId>>
       ELSE /\ self' = [self EXCEPT
                          !.num_classes = args.num_classes,
                          !.class_head = Some(RetinaNetClassifier(nextId,
                                                  args.num_classes[1])),
                          !.bb_head = Some([id |-> nextId + 1,
                                            weights |-> "None"])]
            /\ nextId' = nextId + 2
            /\ events' = events \o <<"class_head", "bb_head">>
            /\ pc' = "mode"
            /\ error' = error
    /\ UNCHANGED <<args, env, tmp, downloaded, loadTarget, buildOut, out,
                   assigned>>
    /\ UNCHANGED lossVars

\* FilterDetections(config.AnchorsConfig(), score_threshold): a new filter
FilterDetections(id, score_threshold) ==
    [id |-> id, score_threshold |-> score_threshold]

\* lines 76-79
SetupMode ==
    /\ pc = "mode"
    /\ op' = "init"
    /\ self' = [self EXCEPT
                  !.training_mode = Some(args.training_mode),
                  !.filter_detections =
                      Some(FilterDetections(nextId, args.score_threshold))]
    /\ nextId' = nextId + 1
    /\ assigned' = Some(args.score_threshold)
    /\ events' = Append(events, "filter")
    /\ pc' = "load_begin"
    /\ UNCHANGED <<args, env, tmp, downloaded, error, loadTarget, buildOut, out>>
    /\ UNCHANGED lossVars

\* lines 82-84
ForceTrainingMode ==
    /\ pc = "load_begin"
    /\ op' = "init"
    /\ IF IsCheckpoint(args.weights)
       THEN /\ tmp' = Some(args.training_mode)
            /\ self' = [self EXCEPT !.training_mode = Some(TRUE)]
            /\ pc' = "build"
       ELSE /\ pc' = "done"
            /\ UNCHANGED <<tmp, self>>
    /\ UNCHANGED <<args, env, downloaded, error, events, nextId, loadTarget,
                   buildOut, out, assigned>>
    /\ UNCHANGED lossVars

\* CallResult choosing the output on the per-call flag as well
CallResult_EffectiveSwitch(m, training) ==
    LET eff == training /\ m.training_mode[1] IN
    [call_training |-> training,
     training |-> eff,
     class_head |-> m.class_head[1].id,
     kind |-> IF eff THEN "raw" ELSE "detections",
     filter |-> IF eff THEN None ELSE Some(m.filter_detections[1])]

\* lines 102-124: what one forward pass does with the model `m`
CallResult(m, training) ==
    LET eff == training /\ m.training_mode[1] IN
    [call_training |-> training,
     training |-> eff,
     class_head |-> m.class_head[1].id,
     kind |-> IF m.training_mode[1] THEN "raw" ELSE "detections",
     filter |-> IF m.training_mode[1] THEN None
                ELSE Some(m.filter_detections[1])]

\* line 85: build() runs call() once on a placeholder input
Build ==
    /\ pc = "build"
    /\ op' = "init"
    /\ buildOut' = Some(CallResult(self, TRUE))
    /\ events' = Append(events, "build")
    /\ pc' = "load_weights"
    /\ UNCHANGED <<args, env, self, tmp, downloaded, error, nextId, loadTarget,
                   out, assigned>>
    /\ UNCHANGED lossVars

\* line 86: load_weights(by_name=True, skip_mismatch=custom_head_classifier)
LoadWeights ==
    /\ pc = "load_weights"
    /\ op' = "init"
    /\ LET head == self.class_head[1]
           fits == head.num_classes = env.n_classes
       IN IF ~fits /\ ~args.custom_head_classifier
          THEN /\ Raise("ValueError: shape mismatch")
               /\ UNCHANGED <<self, loadTarget>>
          ELSE /\ self' = [self EXCEPT
                   !.backbone = Some([self.backbone[1] EXCEPT
                                        !.weights = args.weights]),
                   !.neck = Some([weights |-> args.weights]),
                   !.bb_head = Some([self.bb_head[1] EXCEPT
                                        !.weights = args.weights]),
                   !.class_head = Some([head EXCEPT
                                        !.weights = IF fits THEN args.weights
                                                    ELSE "skipped"])]
               /\ loadTarget' = Some(head.id)
               /\ events' = Append(events, "load_weights")
               /\ pc' = "restore"
               /\ error' = error
    /\ UNCHANGED <<args, env, tmp, downloaded, nextId, buildOut, out, assigned>>
    /\ UNCHANGED lossVars

\* RestoreTrainingMode that leaves the forced flag in place
RestoreTrainingMode_Forgotten ==
    /\ pc = "restore"
    /\ op' = "init"
    /\ pc' = "custom_head"
    /\ UNCHANGED <<args, env, self, tmp, downloaded, error, events, nextId,
                   loadTarget, buildOut, out, assigned>>
    /\ UNCHANGED lossVars

\* lines 87-88
RestoreTrainingMode ==
    /\ pc = "restore"
    /\ op' = "init"
    /\ self' = [self EXCEPT !.training_mode = tmp]
    /\ pc' = "custom_head"
    /\ UNCHANGED <<args, env, tmp, downloaded, error, events, nextId,
                   loadTarget, buildOut, out, assigned>>
    /\ UNCHANGED lossVars

\* AttachCustomHead that replaces the head whatever the flag says
AttachCustomHead_Always ==
    /\ pc = "custom_head"
    /\ op' = "init"
    /\ self' = [self EXCEPT
                  !.class_head = Some(RetinaNetClassifier(nextId,
                                          args.num_classes[1]))]
    /\ nextId' = nextId + 1
    /\ events' = Append(events, "custom_head")
    /\ pc' = "done"
    /\ UNCHANGED <<args, env, tmp, downloaded, error, loadTarget, buildOut,
                   out, assigned>>
    /\ UNCHANGED lossVars

\* lines 90-92
AttachCustomHead ==
    /\ pc = "custom_head"
    /\ op' = "init"
    /\ IF args.custom_head_classifier
       THEN /\ self' = [self EXCEPT
                          !.class_head = Some(RetinaNetClassifier(nextId,
                                                  args.num_classes[1]))]
            /\ nextId' = nextId + 1
            /\ events' = Append(events, "custom_head")
       ELSE UNCHANGED <<self, nextId, events>>
    /\ pc' = "done"
    /\ UNCHANGED <<args, env, tmp, downloaded, error, loadTarget, buildOut,
                   out, assigned>>
    /\ UNCHANGED lossVars

\* lines 94-96: the score_threshold property getter
score_threshold(m) == m.filter_detections[1].score_threshold

\* SetScoreThreshold that builds a new filter object for the value
SetScoreThreshold_NewFilter(m, value) ==
    [m EXCEPT !.filter_detections =
                  Some(FilterDetections(m.filter_detections[1].id + 1, value))]

\* lines 98-100: the score_threshold property setter
SetScoreThreshold(m, value) ==
    [m EXCEPT !.filter_detections =
                  Some([m.filter_detections[1] EXCEPT
                          !.score_threshold = value])]

set_score_threshold ==
    /\ pc = "done"
    /\ \E value \in Thresholds :
          /\ self' = SetScoreThreshold(self, value)
          /\ assigned' = Some(value)
    /\ op' = "set_score_threshold"
    /\ UNCHANGED <<pc, args, env, tmp, downloaded, error, events, nextId,
                   loadTarget, buildOut, out>>
    /\ UNCHANGED lossVars

\* lines 102-124, called on the constructed model
call ==
    /\ pc = "done"
    /\ \E training \in BOOLEAN : out' = Some(CallResult(self, training))
    /\ op' = "call"
    /\ UNCHANGED <<pc, args, env, self, tmp, downloaded, error, events, nextId,
                   loadTarget, buildOut, assigned>>
    /\ UNCHANGED lossVars

DetNext ==
    \/ CheckCustomHead
    \/ CheckWeights
    \/ CheckScratch
    \/ LoadCheckpointParams
    \/ SetupBackbone
    \/ SetupNeck
    \/ SetupHeads
    \/ SetupMode
    \/ ForceTrainingMode
    \/ Build
    \/ LoadWeights
    \/ RestoreTrainingMode
    \/ AttachCustomHead
    \/ set_score_threshold
    \/ call

Init == DetInit /\ LossIdle
Next == DetNext
Spec == Init /\ [][Next]_vars

(***************************************************************************)
(* Properties of the detector                                              *)
(***************************************************************************)
Has(e) == \E i \in 1..Len(events) : events[i] = e
Pos(e) == IF Has(e) THEN CHOOSE i \in 1..Len(events) :
                             /\ events[i] = e
                             /\ \A j \in 1..(i - 1) : events[j] # e
          ELSE 0

NothingBuilt ==
    /\ self.config = None
    /\ self.backbone = None
    /\ self.neck = None
    /\ self.class_head = None
    /\ self.bb_head = None
    /\ self.filter_detections = None
    /\ buildOut = None

\* C1: custom_head_classifier=True with num_classes=None always raises the
\* ValueError of the first check, whatever the other arguments are, and at
\* that point nothing was downloaded and no backbone, neck, head or
\* detection filter exists.
C1_CustomHeadNeedsNumClasses ==
    (args.custom_head_classifier /\ args.num_classes = None) =>
        /\ pc \in {"check_custom", "error"}
        /\ pc = "error" =>
              /\ error = Some("ValueError: num_classes required")
              /\ ~downloaded
              /\ ~Has("download")
              /\ NothingBuilt

C1_Witness ==
    /\ pc = "error"
    /\ args.custom_head_classifier
    /\ args.num_classes = None
    /\ args.weights = "D0-VOC"

\* C2: every configuration error aborts construction before the backbone,
\* the neck or the heads are built; in particular a missing num_classes
\* with custom_head_classifier=False.
C2_FailFast ==
    pc = "error" => NothingBuilt

\* C3: once the checkpoint is being loaded, construction is rejected if and
\* only if num_classes is given, custom_head_classifier is False and
\* num_classes differs from the checkpoint's n_classes.
C3_RejectedIffMismatch ==
    (downloaded /\ pc \in {"error", "done"}) =>
        (pc = "error" <=> (/\ args.num_classes # None
                           /\ ~args.custom_head_classifier
                           /\ args.num_classes # Some(env.n_classes)))

\* C4 as stated: a call returns the raw pair only when both the model-level
\* training_mode and the per-call training flag are true, the filtered
\* detections otherwise.
C4_RawOnlyWhenBothFlags ==
    op = "call" =>
        (out[1].kind = "raw" <=>
             (self.training_mode[1] /\ out[1].call_training))

\* C4 amended: a call returns the raw pair exactly when the model-level
\* training_mode is true, whatever the per-call flag is, and the filtered
\* detections of the model's detection filter otherwise; the training flag
\* handed to backbone, neck and heads is the conjunction of the two flags.
C4_ModeSwitch ==
    op = "call" =>
        /\ out[1].kind = "raw" <=> self.training_mode[1]
        /\ out[1].kind = "detections" <=> ~self.training_mode[1]
        /\ out[1].training <=> (out[1].call_training /\ self.training_mode[1])
        /\ out[1].kind = "detections" =>
               out[1].filter = self.filter_detections

C4_Witness ==
    /\ op = "call"
    /\ self.training_mode[1]
    /\ ~out[1].call_training
    /\ out[1].kind = "raw"

\* C7: reading score_threshold gives the last value assigned (the
\* constructor's value if none was), that value is the one held by the one
\* filter object a call uses, and an assignment changes nothing but that
\* value: backbone, neck, heads, training_mode, num_classes and the filter
\* object's identity stay as they are.
C7_ScoreThresholdLive ==
    /\ [](self.filter_detections # None =>
             score_threshold(self) = assigned[1])
    /\ [][self.filter_detections # None =>
             self'.filter_detections[1].id = self.filter_detections[1].id]_vars
    /\ []((op = "call" /\ out[1].kind = "detections") =>
             /\ out[1].filter[1].score_threshold = assigned[1]
             /\ out[1].filter[1].id = self.filter_detections[1].id)
    /\ [][op' = "set_score_threshold" =>
             /\ self'.backbone = self.backbone
             /\ self'.neck = self.neck
             /\ self'.class_head = self.class_head
             /\ self'.bb_head = self.bb_head
             /\ self'.config = self.config
             /\ self'.training_mode = self.training_mode
             /\ self'.num_classes = self.num_classes
             /\ self'.filter_detections[1].id = self.filter_detections[1].id
             /\ pc' = pc]_vars

C7_Witness ==
    /\ op = "set_score_threshold"
    /\ out # None
    /\ out[1].kind = "detections"
    /\ assigned # Some(args.score_threshold)
    /\ score_threshold(self) # out[1].filter[1].score_threshold

\* C8: with checkpoint weights and custom_head_classifier=True the original
\* classification head is created, then the model is built, then the
\* weights are loaded into that head (mismatching layers skipped), and only
\* then is the head replaced by a fresh one with the caller's num_classes;
\* the replacement is never the target of the load.  With
\* custom_head_classifier=False the head is never replaced after loading.
C8_HeadReplacedAfterLoad ==
    /\ Has("custom_head") =>
          /\ args.custom_head_classifier
          /\ 0 < Pos("class_head")
          /\ Pos("class_head") < Pos("build")
          /\ Pos("build") < Pos("load_weights")
          /\ Pos("load_weights") < Pos("custom_head")
          /\ loadTarget # None
          /\ self.class_head[1].id # loadTarget[1]
          /\ self.class_head[1].weights = "None"
          /\ self.class_head[1].num_classes = args.num_classes[1]
    /\ (pc = "done" /\ IsCheckpoint(args.weights)
            /\ args.custom_head_classifier) => Has("custom_head")
    /\ (loadTarget # None /\ ~Has("custom_head")) =>
          /\ self.class_head[1].id = loadTarget[1]
          /\ self.class_head[1].weights =
                 IF self.class_head[1].num_classes = env.n_classes
                 THEN args.weights ELSE "skipped"
    /\ ~args.custom_head_classifier => ~Has("custom_head")

C8_Witness ==
    /\ pc = "done"
    /\ args.custom_head_classifier
    /\ Has("custom_head")
    /\ args.num_classes # Some(env.n_classes)

\* C10: after a successful construction training_mode is the constructor's
\* argument.  With a checkpoint it is True while the model is built and the
\* weights are loaded (the build takes the raw-output path) and it is the
\* argument again before the custom head is attached; without a checkpoint
\* it never differs from the argument once set.
C10_TrainingModeRestored ==
    /\ pc = "done" => self.training_mode = Some(args.training_mode)
    /\ pc \in {"build", "load_weights"} => self.training_mode = Some(TRUE)
    /\ buildOut # None => /\ buildOut[1].kind = "raw"
                          /\ buildOut[1].filter = None
    /\ pc = "custom_head" => self.training_mode = Some(args.training_mode)
    /\ self.training_mode \notin {None, Some(args.training_mode)} =>
          /\ IsCheckpoint(args.weights)
          /\ pc \in {"build", "load_weights", "restore"}
    /\ ~IsCheckpoint(args.weights) => buildOut = None

C10_Witness ==
    /\ pc = "done"
    /\ IsCheckpoint(args.weights)
    /\ ~args.training_mode
    /\ buildOut # None

(***************************************************************************)
(* Losses (loss_functions.py).  No detector is involved.                   *)
(***************************************************************************)
DetIdle ==
    /\ pc = "idle"
    /\ args = None
    /\ env = None
    /\ self = NoSelf
    /\ tmp = None
    /\ downloaded = FALSE
    /\ error = None
    /\ events = <<>>
    /\ nextId = 1
    /\ loadTarget = None
    /\ buildOut = None
    /\ out = None
    /\ assigned = None

Abs(x) == IF x < 0 THEN -x ELSE x
Max(a, b) == IF a >= b THEN a ELSE b

RECURSIVE SeqSum(_)
SeqSum(s) == IF s = <<>> THEN 0 ELSE s[1] + SeqSum(Tail(s))

\* a [B, A, ...] tensor is a sequence of B images, each a sequence of A rows
\* shapes with at most MaxAnchors anchors in the batch
Shapes == {sh \in (1..MaxAnchors) \X (1..MaxAnchors) : sh[1] * sh[2] <= MaxAnchors}
Tensors(rows) == UNION {[1..sh[1] -> [1..sh[2] -> rows]] : sh \in Shapes}
SameShape(t, u) ==
    /\ Len(t) = Len(u)
    /\ \A b \in 1..Len(t) : Len(t[b]) = Len(u[b])

AnchorStates == {-1, 0, 1}

\* t[:, :, -1]
LastColumn(t) == [b \in 1..Len(t) |-> [a \in 1..Len(t[b]) |->
                     t[b][a][Len(t[b][a])]]]
\* t[:, :, :-1]
ButLastColumn(t) == [b \in 1..Len(t) |-> [a \in 1..Len(t[b]) |->
                        SubSeq(t[b][a], 1, Len(t[b][a]) - 1)]]

\* the [b, a] indices of a tensor in row-major order
RECURSIVE RowMajor(_, _)
RowMajor(t, b) ==
    IF b > Len(t) THEN <<>>
    ELSE [a \in 1..Len(t[b]) |-> <<b, a>>] \o RowMajor(t, b + 1)

\* tf.where(tf.equal(t, v)): the indices holding v, in row-major order
WhereEqual(t, v) ==
    LET Hit(ix) == t[ix[1]][ix[2]] = v IN SelectSeq(RowMajor(t, 1), Hit)
\* tf.where(tf.not_equal(t, v))
WhereNotEqual(t, v) ==
    LET Hit(ix) == t[ix[1]][ix[2]] # v IN SelectSeq(RowMajor(t, 1), Hit)

\* tf.gather_nd(t, idx) for [b, a] indices: the rows at those indices
gather_nd(t, idx) == [k \in 1..Len(idx) |-> t[idx[k][1]][idx[k][2]]]

(***************************************************************************)
(* Focal loss.  Probabilities are in tenths, loss values in 1e-6.          *)
(***************************************************************************)
FocalLabelRows == {<<0, 0>>, <<1, 0>>}
FocalPredRows == {<<9, 1>>, <<1, 5>>}
FocalTrueRows == {l \o <<st>> : l \in FocalLabelRows, st \in AnchorStates}

\* tfa sigmoid_focal_crossentropy for one class of one anchor, alpha = 0.25
\* and gamma = 1.5: -alpha_t * (1 - p_t)^gamma * log(p_t), in 1e-6
FocalTerm(label, p) ==
    IF label = 1
    THEN CASE p = 1 -> 491495 [] p = 5 -> 61266 [] p = 9 -> 833
    ELSE CASE p = 1 -> 2499 [] p = 5 -> 183798 [] p = 9 -> 1474486

\* tfa.losses.SigmoidFocalCrossEntropy(reduction=SUM) on [N, C] tensors:
\* summed over classes per anchor, then over anchors (0 on an empty tensor)
SigmoidFocalCrossEntropy(yt, yp) ==
    SeqSum([k \in 1..Len(yt) |->
               SeqSum([c \in 1..Len(yt[k]) |-> FocalTerm(yt[k][c], yp[k][c])])])

\* EfficientDetFocalLoss.call with the anchors selected by state == 1 only
EfficientDetFocalLoss_call_PositivesOnly(yt, yp) ==
    LET anchors_states == LastColumn(yt)
        labels == ButLastColumn(yt)
        true_idx == WhereEqual(anchors_states, 1)
        normalizer == Max(1, Len(true_idx))
        g_true == gather_nd(labels, true_idx)
        g_pred == gather_nd(yp, true_idx)
    IN [y_true |-> g_true, y_pred |-> g_pred,
        num |-> SigmoidFocalCrossEntropy(g_true, g_pred),
        den |-> normalizer]

\* lines 62-79.  The result is num / den; y_true and y_pred are the tensors
\* handed to loss_fn
EfficientDetFocalLoss_call(yt, yp) ==
    LET anchors_states == LastColumn(yt)
        labels == ButLastColumn(yt)
        not_ignore_idx == WhereNotEqual(anchors_states, -1)
        true_idx == WhereEqual(anchors_states, 1)
        normalizer == Max(1, Len(true_idx))
        g_true == gather_nd(labels, not_ignore_idx)
        g_pred == gather_nd(yp, not_ignore_idx)
    IN [y_true |-> g_true, y_pred |-> g_pred,
        num |-> SigmoidFocalCrossEntropy(g_true, g_pred),
        den |-> normalizer]

FocalInit ==
    /\ y_true \in Tensors(FocalTrueRows)
    /\ y_pred \in Tensors(FocalPredRows)
    /\ SameShape(y_true, y_pred)
    /\ delta = 10
    /\ clip_delta = 10
    /\ reduction = "sum"
    /\ result = None
    /\ op = "init"

FocalCall ==
    /\ result = None
    /\ result' = Some(EfficientDetFocalLoss_call(y_true, y_pred))
    /\ op' = "call"
    /\ UNCHANGED <<y_true, y_pred, delta, clip_delta, reduction>>
    /\ UNCHANGED detVars

InitFocal == DetIdle /\ FocalInit
NextFocal == FocalCall
SpecFocal == InitFocal /\ [][NextFocal]_vars

\* flat position of anchor [b, a] and the anchors of a tensor
FlatPos(t, b, a) == (b - 1) * Len(t[1]) + a
AnchorsOf(t) == {ix \in (1..Len(t)) \X (1..Len(t[1])) : TRUE}
StateOf(t, ix) == t[ix[1]][ix[2]][Len(t[ix[1]][ix[2]])]
\* rank of anchor ix among the anchors of the set S, in batch order
Rank(t, S, ix) ==
    Cardinality({jx \in S : FlatPos(t, jx[1], jx[2]) <= FlatPos(t, ix[1], ix[2])})

RECURSIVE SetSum(_, _)
SetSum(S, f) ==
    IF S = {} THEN 0
    ELSE LET x == CHOOSE y \in S : TRUE IN f[x] + SetSum(S \ {x}, f)

\* C5: the labels and predictions handed to the focal loss are exactly those
\* of the anchors with state # -1, in batch order; the sum is divided by
\* max(1, number of anchors with state 1); the divisor is 1 without positive
\* anchors and the loss is 0 when every anchor is ignored; it is never
\* negative.
C5_FocalMasking ==
    result # None =>
        LET r == result[1]
            kept == {ix \in AnchorsOf(y_true) : StateOf(y_true, ix) # -1}
            pos == {ix \in AnchorsOf(y_true) : StateOf(y_true, ix) = 1}
            Term == [ix \in kept |->
                        LET row == y_true[ix[1]][ix[2]]
                            prd == y_pred[ix[1]][ix[2]]
                        IN FocalTerm(row[1], prd[1]) + FocalTerm(row[2], prd[2])]
        IN /\ Len(r.y_true) = Cardinality(kept)
           /\ Len(r.y_pred) = Cardinality(kept)
           /\ \A ix \in kept :
                 /\ r.y_true[Rank(y_true, kept, ix)] =
                        SubSeq(y_true[ix[1]][ix[2]], 1, 2)
                 /\ r.y_pred[Rank(y_true, kept, ix)] = y_pred[ix[1]][ix[2]]
           /\ r.num = SetSum(kept, Term)
           /\ r.den = Max(1, Cardinality(pos))
           /\ pos = {} => r.den = 1
           /\ kept = {} => r.num = 0
           /\ r.num >= 0 /\ r.den >= 1

C5_Witness ==
    /\ result # None
    /\ \E ix \in AnchorsOf(y_true) : StateOf(y_true, ix) = -1
    /\ \E ix \in AnchorsOf(y_true) : StateOf(y_true, ix) = 0
    /\ \A ix \in AnchorsOf(y_true) : StateOf(y_true, ix) # 1
    /\ result[1].den = 1
    /\ result[1].num > 0

(***************************************************************************)
(* Huber loss.  Coordinates and delta are in tenths; the loss of one       *)
(* coordinate is in 1/200, the mean over the K coordinates of a row is the *)
(* row's sum in 1/(200 K).                                                 *)
(***************************************************************************)
Deltas == {5, 10}
HuberTargetRows == {<<1, 1, 2, 2>>, <<15, -3, 0, 12>>}
HuberPredRows == {<<0, 0, 0, 0>>, <<5, -13, 10, 2>>}
HuberTrueRows == {t \o <<st>> : t \in HuberTargetRows, st \in AnchorStates}

\* line 39: 0.5 * error^2
squared_loss(e) == e * e
\* line 40: clip_delta * (|error| - 0.5 * clip_delta)
linear_loss(e, d) == 2 * d * Abs(e) - d * d

\* huber_element with the two branches swapped
huber_element_Swapped(e, d) ==
    IF Abs(e) < d THEN linear_loss(e, d) ELSE squared_loss(e)

\* lines 36-42: tf.where(|error| < clip_delta, squared_loss, linear_loss)
huber_element(e, d) ==
    IF Abs(e) < d THEN squared_loss(e) ELSE linear_loss(e, d)

\* line 43: tf.reduce_mean(loss, axis=-1) of one row
huber_row(t, p, d) == SeqSum([k \in 1..Len(t) |-> huber_element(t[k] - p[k], d)])

\* lines 32-51, on [N, K] tensors.  A scalar is num / den (0 / 0 is the mean
\* of an empty tensor)
huber_loss(yt, yp, d, red) ==
    LET loss == [n \in 1..Len(yt) |-> huber_row(yt[n], yp[n], d)] IN
    IF red = "mean"
    THEN [kind |-> "scalar", num |-> SeqSum(loss), den |-> Len(loss)]
    ELSE IF red = "sum"
         THEN [kind |-> "scalar", num |-> SeqSum(loss), den |-> 1]
         ELSE [kind |-> "tensor", values |-> loss]

\* tf.losses.Huber(reduction=SUM, delta): per row the mean over the last
\* axis of 0.5 e^2 where |e| <= delta and delta |e| - 0.5 delta^2 elsewhere,
\* summed over the rows (0 on an empty tensor)
Huber(yt, yp, d) ==
    SeqSum([n \in 1..Len(yt) |->
               SeqSum([k \in 1..Len(yt[n]) |->
                          LET e == yt[n][k] - yp[n][k] IN
                          IF Abs(e) <= d THEN e * e
                          ELSE 2 * d * Abs(e) - d * d])])

\* EfficientDetHuberLoss.call with the anchors selected as the focal loss
\* selects them
EfficientDetHuberLoss_call_NotIgnored(yt, yp, d) ==
    LET anchors_states == LastColumn(yt)
        labels == ButLastColumn(yt)
        true_idx == WhereNotEqual(anchors_states, -1)
        normalizer == Max(1, Len(true_idx)) * 4
        g_true == gather_nd(labels, true_idx)
        g_pred == gather_nd(yp, true_idx)
    IN [y_true |-> g_true, y_pred |-> g_pred,
        num |-> 50 * Huber(g_true, g_pred, d),
        den |-> normalizer]

\* lines 89-106.  The result is num / den in 1/800; y_true and y_pred are
\* the tensors handed to loss_fn
EfficientDetHuberLoss_call(yt, yp, d) ==
    LET anchors_states == LastColumn(yt)
        labels == ButLastColumn(yt)
        true_idx == WhereEqual(anchors_states, 1)
        normalizer == Max(1, Len(true_idx)) * 4
        g_true == gather_nd(labels, true_idx)
        g_pred == gather_nd(yp, true_idx)
    IN [y_true |-> g_true, y_pred |-> g_pred,
        num |-> 50 * Huber(g_true, g_pred, d),
        den |-> normalizer]

\* ten anchors of one image, one of them positive with target
\* [0.1, 0.1, 0.2, 0.2] and prediction 0, the others negative
TenAnchors(i, row) ==
    <<[a \in 1..10 |-> IF a = i THEN <<1, 1, 2, 2, 1>> ELSE row \o <<0>>]>>

HuberInit ==
    /\ \/ /\ y_true \in Tensors(HuberTrueRows)
          /\ y_pred \in Tensors(HuberPredRows)
          /\ SameShape(y_true, y_pred)
       \/ /\ y_true \in {TenAnchors(i, row) : i \in 1..10,
                                              row \in HuberTargetRows}
          /\ y_pred \in {<<[a \in 1..10 |-> IF a = y THEN <<0, 0, 0, 0>> ELSE q]>> :
                            y \in 1..10, q \in HuberPredRows}
          /\ \E i \in 1..10 : /\ y_true[1][i][5] = 1
                              /\ y_pred[1][i] = <<0, 0, 0, 0>>
    /\ delta \in Deltas
    /\ clip_delta = 10
    /\ reduction = "sum"
    /\ result = None
    /\ op = "init"

HuberCall ==
    /\ result = None
    /\ result' = Some(EfficientDetHuberLoss_call(y_true, y_pred, delta))
    /\ op' = "call"
    /\ UNCHANGED <<y_true, y_pred, delta, clip_delta, reduction>>
    /\ UNCHANGED detVars

\* a second call whose input differs from the first one's in one anchor
\* that is not positive: its state (0 or -1), its targets or its prediction
HuberCallPerturbed ==
    /\ op = "call"
    /\ \E b \in 1..Len(y_true) : \E a \in 1..Len(y_true[b]) :
       \E st \in {0, -1}, t \in HuberTargetRows, p \in HuberPredRows :
          /\ y_true[b][a][5] # 1
          /\ y_true' = [y_true EXCEPT ![b][a] = t \o <<st>>]
          /\ y_pred' = [y_pred EXCEPT ![b][a] = p]
          /\ <<y_true', y_pred'>> # <<y_true, y_pred>>
    /\ result' = Some(EfficientDetHuberLoss_call(y_true', y_pred', delta))
    /\ op' = "call_perturbed"
    /\ UNCHANGED <<delta, clip_delta, reduction>>
    /\ UNCHANGED detVars

HuberNext ==
    \/ HuberCall
    \/ HuberCallPerturbed

InitHuber == DetIdle /\ HuberInit
SpecHuber == InitHuber /\ [][HuberNext]_vars

\* the Huber error of one coordinate as the specification gives it, in 1/200
HuberPoint(e, d) == IF Abs(e) < d THEN e * e ELSE d * (2 * Abs(e) - d)

HuberLossPredRows == HuberPredRows \cup {<<-4, 6, -3, 7>>}
Reductions == {"sum", "mean", "none"}

HuberLossInit ==
    /\ \E n \in 0..MaxAnchors :
          /\ y_true \in [1..n -> HuberTargetRows]
          /\ y_pred \in [1..n -> HuberLossPredRows]
    /\ clip_delta \in Deltas
    /\ reduction \in Reductions
    /\ delta = 10
    /\ result = None
    /\ op = "init"

HuberLossApply ==
    /\ result = None
    /\ result' = Some(huber_loss(y_true, y_pred, clip_delta, reduction))
    /\ op' = "call"
    /\ UNCHANGED <<y_true, y_pred, delta, clip_delta, reduction>>
    /\ UNCHANGED detVars

InitHuberLoss == DetIdle /\ HuberLossInit
NextHuberLoss == HuberLossApply
SpecHuberLoss == InitHuberLoss /\ [][NextHuberLoss]_vars

\* the coordinate errors of the current input
Errors == {y_true[n][k] - y_pred[n][k] : n \in 1..Len(y_true), k \in 1..4}

\* C9: for an error e the loss is 0.5 e^2 when |e| < clip_delta and
\* clip_delta (|e| - 0.5 clip_delta) otherwise; the two branches agree at
\* |e| = clip_delta; the value is never negative; the values are averaged
\* over the last axis per anchor and, under reduction 'sum', summed over
\* the anchors.
C9_HuberLoss ==
    result # None =>
        LET r == result[1]
            Row == [n \in 1..Len(y_true) |->
                       LET H == [k \in 1..4 |->
                                    HuberPoint(y_true[n][k] - y_pred[n][k],
                                               clip_delta)]
                       IN H[1] + H[2] + H[3] + H[4]]
        IN /\ \A e \in Errors :
                 /\ Abs(e) < clip_delta =>
                        huber_element(e, clip_delta) = e * e
                 /\ Abs(e) >= clip_delta =>
                        huber_element(e, clip_delta) =
                            clip_delta * (2 * Abs(e) - clip_delta)
                 /\ Abs(e) = clip_delta =>
                        squared_loss(e) = linear_loss(e, clip_delta)
                 /\ huber_element(e, clip_delta) >= 0
           /\ reduction = "none" =>
                 /\ r.kind = "tensor"
                 /\ r.values = Row
           /\ reduction = "sum" =>
                 /\ r.kind = "scalar"
                 /\ r.num = SeqSum(Row)
                 /\ r.den = 1
                 /\ r.num >= 0

C9_Witness ==
    /\ result # None
    /\ reduction = "sum"
    /\ Len(y_true) >= 2
    /\ \E e \in Errors : Abs(e) = clip_delta
    /\ \E e \in Errors : Abs(e) > clip_delta
    /\ \E e \in Errors : Abs(e) < clip_delta /\ e # 0
    /\ result[1].num > 0

====
